---------------------------- MODULE Spec2Model ----------------------------
(***************************************************************************)
(* alfredmoji: the line parsers, the code-point resolver, the snippet      *)
(* emitter and the archive builder of the three program variants          *)
(*   A : src/unnamed/part_000  (emoji-test.txt, subgroup context)          *)
(*   B : src/src/main.go       (emoji-sequences.txt, snippet pack)         *)
(*   P : src/unnamed/part_001  (emoji-sequences.txt, console only)         *)
(*                                                                         *)
(* A Go string is a sequence of characters; a character is a one-letter    *)
(* TLA+ string, or a token "U+XXXX" for a character outside ASCII.         *)
(***************************************************************************)
EXTENDS Integers, Sequences, FiniteSets, TLC

VARIABLES
    prog,             \* which program / function is running
    pc,               \* its position
    displayEmojis,    \* the -emojis flag
    line,             \* argument of the function under test
    shape,            \* how the argument was put together (ghost)
    currentSubgroup,  \* the subgroup context, Nil before the first header
    emojis,           \* slice returned by the last parseEmojiLine
    codePointStr,     \* argument of convertCodePointToEmoji
    emojiChar,        \* string it returned, as its code points
    panicked,         \* a Go runtime panic ended the call
    err,              \* the error the last call returned (FALSE: nil)
    fetched,          \* what happened to the retrieval (ghost)
    lines,            \* what fetchEmojiData returned
    idx,              \* index of the next line of the scan
    filesToZip,       \* main's list of files to archive
    disk,             \* regular files on disk: path -> content
    dirs,             \* directories created by the run
    console,          \* what was printed
    uidNext,          \* number of identifiers generateUID has handed out
    archive,          \* entries of the archive, in order
    log               \* per record: line index, record, outcome (ghost)

vars == <<prog, pc, displayEmojis, line, shape, currentSubgroup, emojis,
          codePointStr, emojiChar, panicked, err, fetched, lines, idx, filesToZip, disk, dirs, console, uidNext,
          archive, log>>

\* The state of a whole run of main.
mainVars == <<err, fetched, displayEmojis, lines, idx, filesToZip, disk, dirs, console,
              uidNext, archive, log>>

-----------------------------------------------------------------------------
(* Characters and strings                                                  *)

\* The characters of a TLA+ string literal, one element each.
S(s) == [i \in 1..Len(s) |-> SubSeq(s, i, i)]

\* The nil *string: no Go string, since "nil" is no character.
Nil == <<"nil">>

\* Characters outside ASCII.
LSQUO == "U+2018"   \* left single curly quote
RSQUO == "U+2019"   \* right single curly quote
LDQUO == "U+201C"   \* left double curly quote
RDQUO == "U+201D"   \* right double curly quote
SBQUO == "U+201A"   \* single low-9 quotation mark
ADIA  == "U+00C4"   \* A with diaeresis
OCIRC == "U+00F4"   \* o with circumflex
OGRAV == "U+00F2"   \* o with grave
UACUT == "U+00FA"   \* u with acute
UGRAV == "U+00F9"   \* u with grave
NBSP  == "U+00A0"   \* no-break space
GLYPH == "U+1F600"  \* an emoji
VS16  == "U+FE0F"   \* variation selector 16
KEYCAP == "U+20E3"  \* combining enclosing keycap

CurlyQuotes == {LSQUO, RSQUO, LDQUO, RDQUO}

\* unicode.IsSpace, which strings.TrimSpace and strings.Fields use.
UnicodeSpace == {" ", "\t", "\n", "\r", "\f", "U+000B", "U+0085", NBSP}

\* The class \s of package regexp.
ReSpace == {" ", "\t", "\n", "\r", "\f"}

\* The class \d of package regexp.
ReDigit == {"0", "1", "2", "3", "4", "5", "6", "7", "8", "9"}

HasPrefix(s, p) == Len(s) >= Len(p) /\ SubSeq(s, 1, Len(p)) = p

TrimPrefix(s, p) == IF HasPrefix(s, p) THEN SubSeq(s, Len(p) + 1, Len(s)) ELSE s

\* Index of the first occurrence of sub in s at or after position p, 0 if none.
RECURSIVE IndexFrom(_, _, _)
IndexFrom(s, sub, p) ==
    IF p + Len(sub) - 1 > Len(s) THEN 0
    ELSE IF SubSeq(s, p, p + Len(sub) - 1) = sub THEN p
    ELSE IndexFrom(s, sub, p + 1)

Contains(s, sub) == IndexFrom(s, sub, 1) # 0

\* Last index of the run of characters of class cls that starts at p
\* (p - 1 when there is none).
RECURSIVE RunEnd(_, _, _)
RunEnd(s, p, cls) ==
    IF p <= Len(s) /\ s[p] \in cls THEN RunEnd(s, p + 1, cls) ELSE p - 1

\* First index of the run of characters of class cls that ends at p.
RECURSIVE RunStart(_, _, _)
RunStart(s, p, cls) ==
    IF p >= 1 /\ s[p] \in cls THEN RunStart(s, p - 1, cls) ELSE p + 1

TrimSpace(s) ==
    LET a == RunEnd(s, 1, UnicodeSpace) + 1
        b == RunStart(s, Len(s), UnicodeSpace) - 1
    IN  IF a > b THEN <<>> ELSE SubSeq(s, a, b)

\* strings.ReplaceAll for a non-empty old: left to right, non-overlapping.
RECURSIVE ReplaceAll(_, _, _)
ReplaceAll(s, old, new) ==
    IF Len(s) < Len(old) THEN s
    ELSE IF SubSeq(s, 1, Len(old)) = old
         THEN new \o ReplaceAll(SubSeq(s, Len(old) + 1, Len(s)), old, new)
         ELSE <<s[1]>> \o ReplaceAll(Tail(s), old, new)

\* strings.Split for a non-empty sep: all the pieces, Len >= 1.
RECURSIVE Split(_, _)
Split(s, sep) ==
    LET i == IndexFrom(s, sep, 1)
    IN  IF i = 0 THEN <<s>>
        ELSE <<SubSeq(s, 1, i - 1)>>
             \o Split(SubSeq(s, i + Len(sep), Len(s)), sep)

\* strings.SplitN(s, sep, 2): cut at the first sep only.
SplitN2(s, sep) ==
    LET i == IndexFrom(s, sep, 1)
    IN  IF i = 0 THEN <<s>>
        ELSE <<SubSeq(s, 1, i - 1), SubSeq(s, i + Len(sep), Len(s))>>

\* strings.Fields: the maximal runs of non-space characters.
RECURSIVE Fields(_)
Fields(s) ==
    LET a == RunEnd(s, 1, UnicodeSpace) + 1
        i == IF a > Len(s) THEN 0
             ELSE CHOOSE j \in a..Len(s) :
                    /\ \A k \in a..j : s[k] \notin UnicodeSpace
                    /\ (j = Len(s) \/ s[j + 1] \in UnicodeSpace)
    IN  IF a > Len(s) THEN <<>>
        ELSE <<SubSeq(s, a, i)>> \o Fields(SubSeq(s, i + 1, Len(s)))

\* Concatenation of a sequence of strings.
RECURSIVE Concat(_)
Concat(ss) == IF ss = <<>> THEN <<>> ELSE Head(ss) \o Concat(Tail(ss))

\* strings.Join
RECURSIVE Join(_, _)
Join(ss, sep) ==
    IF ss = <<>> THEN <<>>
    ELSE IF Len(ss) = 1 THEN ss[1]
    ELSE ss[1] \o sep \o Join(Tail(ss), sep)

Range(f) == {f[i] : i \in DOMAIN f}

-----------------------------------------------------------------------------
(* Format A: src/unnamed/part_000                                          *)

\* ` E\d+\.\d+ ` matched at p: the rest of the match once the first run of
\* digits, ending at d1, is known.
VersionFraction(s, d1, d2) ==
    IF /\ d1 + 1 <= Len(s) /\ s[d1 + 1] = "."
       /\ d2 >= d1 + 2
       /\ d2 + 1 <= Len(s) /\ s[d2 + 1] = " "
    THEN d2 + 1 ELSE 0

VersionMajor(s, p, d1) ==
    IF d1 >= p + 2
    THEN VersionFraction(s, d1, RunEnd(s, d1 + 2, ReDigit)) ELSE 0

\* End of a match of ` E\d+\.\d+ ` that starts at p (the index of its last
\* blank), 0 when there is no match.
VersionEnd(s, p) ==
    IF p + 1 <= Len(s) /\ s[p] = " " /\ s[p + 1] = "E"
    THEN VersionMajor(s, p, RunEnd(s, p + 2, ReDigit)) ELSE 0

\* Whether \s+ taking s[1..w], group 1 taking s[w+1..e] and the version tag
\* ending at v leave a non-empty group 2 ('.' matches all but a newline).
GroupsMatch(s, w, e, v) ==
    /\ v # 0
    /\ \A k \in (w + 1)..e : s[k] # "\n"
    /\ v + 1 <= Len(s)
    /\ s[v + 1] # "\n"

\* The leftmost-first match of `^\s+(.+) E\d+\.\d+ (.+)`: the longest \s+
\* that leads to a match, then the longest group 1.  <<w, e>>, or <<>>.
RECURSIVE SearchMatch(_, _, _)
SearchMatch(s, w, e) ==
    IF w < 1 THEN <<>>
    ELSE IF e <= w THEN SearchMatch(s, w - 1, Len(s))
    ELSE IF GroupsMatch(s, w, e, VersionEnd(s, e + 1)) THEN <<w, e>>
    ELSE SearchMatch(s, w, e - 1)

\* The submatches of the match found: <<whole, group 1, group 2>>; group 2
\* runs to the end of the line.
Submatches(s, m, v, end) ==
    <<SubSeq(s, 1, end), SubSeq(s, m[1] + 1, m[2]), SubSeq(s, v + 1, end)>>

SubmatchesAt(s, m, v) ==
    Submatches(s, m, v, RunEnd(s, v + 1, Range(s) \ {"\n"}))

SubmatchesOf(s, m) ==
    IF m = <<>> THEN <<>> ELSE SubmatchesAt(s, m, VersionEnd(s, m[2] + 1))

\* regexp.MustCompile(`^\s+(.+) E\d+\.\d+ (.+)`).FindStringSubmatch(s):
\* <<>> when there is no match.
FindStringSubmatch(s) ==
    SubmatchesOf(s, SearchMatch(s, RunEnd(s, 1, ReSpace), Len(s)))

\* The description of a match: blanks to hyphens, trimmed, then commas,
\* colons and four literals removed.  The literals are the source's: three
\* characters each (U+201A, U+00C4 and a third).
CleanDescription(g2) ==
    ReplaceAll(ReplaceAll(ReplaceAll(ReplaceAll(ReplaceAll(ReplaceAll(
        TrimSpace(ReplaceAll(g2, <<" ">>, <<"-">>)),
        <<",">>, <<>>),
        <<":">>, <<>>),
        <<SBQUO, ADIA, OCIRC>>, <<>>),
        <<SBQUO, ADIA, OGRAV>>, <<>>),
        <<SBQUO, ADIA, UACUT>>, <<>>),
        <<SBQUO, ADIA, UGRAV>>, <<>>)

ExtractFrom(matches) ==
    IF Len(matches) = 3
    THEN <<TrimSpace(matches[2]), CleanDescription(matches[3])>>
    ELSE <<<<>>, <<>>>>

\* extractDescriptionAndEmoji: <<emoji, description>>.
extractDescriptionAndEmoji(input) == ExtractFrom(FindStringSubmatch(input))

SubgroupPrefix == S("# subgroup:")

\* The line filter without its test for "unqualified".
SkipLineKeepsUnqualified(l) ==
    \/ ~Contains(l, S(";"))
    \/ ~Contains(l, S("#"))
    \/ HasPrefix(l, S("#"))
    \/ Contains(l, S("minimally-qualified"))
    \/ Contains(l, S("component"))

\* The line filter of parseEmojiLine: TRUE when the line is skipped.
SkipLine(l) ==
    \/ ~Contains(l, S(";"))
    \/ ~Contains(l, S("#"))
    \/ HasPrefix(l, S("#"))
    \/ Contains(l, S("minimally-qualified"))
    \/ Contains(l, S("unqualified"))
    \/ Contains(l, S("component"))

\* What a call returns: the slice, the subgroup context after the call, and
\* whether the call panicked.
Returned(es, ctx, panic) == [emojis |-> es, ctx |-> ctx, panic |-> panic]

EmojiDataA(ed, ctx) ==
    [Emoji |-> ed[1], Description |-> ed[2], Subgroup |-> ctx]

\* parseEmojiLine past the filter: bits is parts[1] split on '#'.  Indexing
\* bits[1] panics when parts[1] holds no '#'; *currentSubgroup panics when
\* the pointer is nil.
ParseDataLine(bits, ctx) ==
    IF Len(bits) < 2 \/ ctx = Nil
    THEN Returned(<<>>, ctx, TRUE)
    ELSE Returned(<<EmojiDataA(extractDescriptionAndEmoji(bits[2]), ctx)>>,
                  ctx, FALSE)

\* parseEmojiLine(line, currentSubgroup) of format A.
parseEmojiLineA(l, ctx) ==
    IF HasPrefix(l, SubgroupPrefix)
    THEN IF ctx = Nil
         THEN Returned(<<>>, ctx, TRUE)
         ELSE Returned(<<>>, TrimSpace(TrimPrefix(l, SubgroupPrefix)), FALSE)
    ELSE IF SkipLine(l)
    THEN Returned(<<>>, ctx, FALSE)
    ELSE ParseDataLine(Split(SplitN2(l, S(";"))[2], S("#")), ctx)

-----------------------------------------------------------------------------
(* Input lines of format A (emoji-test.txt)                                *)

CodePointFieldsA == {S("1F600"), S("0023 FE0F 20E3")}

FullyQualified == S("fully-qualified")

ExcludedQualifiers ==
    {S("minimally-qualified"), S("unqualified"), S("component")}

QualifiersA == {FullyQualified} \cup ExcludedQualifiers

\* A glyph, and the keycap glyph that starts with '#'.
GlyphsA == {<<GLYPH>>, <<"#", VS16, KEYCAP>>}

\* Version tags of the form E<major>.<minor>, and others.
VersionTags == {S("E1.0"), S("E15.1")}

OtherTags == {S("E1"), S("v1.0")}

\* Descriptions as the Unicode file writes them: words, single blanks,
\* commas, colons and curly quotes.
DescriptionsUnicode ==
    { S("grinning face"),
      S("woman") \o <<RSQUO>> \o S("s hat"),
      <<LDQUO>> \o S("here") \o <<RDQUO>> \o S(" button"),
      S("man: beard, dark"),
      <<LSQUO>> \o S("ok") \o <<RSQUO>> }

\* Other texts in the place of a description.
DescriptionsOther ==
    { S("big\ttop"),
      S("a  b "),
      S("x") \o <<SBQUO, ADIA, OCIRC>> \o S("y") \o <<SBQUO, ADIA, UACUT>>,
      S("old E0.6 new"),
      S("spare component") }

DataLineA(cp, q, g, v, d) ==
    cp \o S(" ; ") \o q \o S(" # ") \o g \o S(" ") \o v \o S(" ") \o d

DataShapes ==
    [kind : {"data"}, cp : CodePointFieldsA, qual : QualifiersA,
     glyph : GlyphsA, tag : VersionTags \cup OtherTags,
     desc : DescriptionsUnicode \cup DescriptionsOther]

\* Lines that are no data lines: headers, comments, the empty line, and a
\* line whose only '#' stands before its ';'.
OtherLinesA ==
    { S("# subgroup: face-smiling"),
      S("# subgroup:  hand & arm "),
      S("# subgroup: component"),
      S("# group: Smileys & Emotion"),
      S("# 1F600 ; unqualified"),
      S("1F600 ; fully-qualified"),
      S("1F600 # no field separator"),
      S("a#b;c"),
      <<>> }

OtherShapes == [kind : {"other"}, text : OtherLinesA]

LineOf(sh) ==
    IF sh.kind = "data"
    THEN DataLineA(sh.cp, sh.qual, sh.glyph, sh.tag, sh.desc)
    ELSE sh.text

\* Subgroup contexts a call may find: none yet, or a name.
ContextsA == {Nil, S("face-smiling")}

-----------------------------------------------------------------------------
(* parseEmojiLine of format A, called on one line                          *)

NoResult == <<>>

NotFetched == [fault |-> "none", done |-> FALSE]

NoArchive == [exists |-> FALSE, entries |-> <<>>]

UnusedMain ==
    /\ err = FALSE
    /\ fetched = NotFetched
    /\ displayEmojis = FALSE
    /\ lines = <<>>
    /\ idx = 0
    /\ filesToZip = <<>>
    /\ disk = <<>>
    /\ dirs = {}
    /\ console = <<>>
    /\ uidNext = 0
    /\ archive = NoArchive
    /\ log = <<>>

Unused ==
    /\ codePointStr = <<>>
    /\ emojiChar = <<>>
    /\ UnusedMain

InitParseA ==
    /\ prog = "parseEmojiLineA"
    /\ pc = "call"
    /\ shape \in [sh : DataShapes \cup OtherShapes, ctx : ContextsA]
    /\ line = LineOf(shape.sh)
    /\ currentSubgroup = shape.ctx
    /\ emojis = NoResult
    /\ panicked = FALSE
    /\ Unused

CallParseEmojiLineA ==
    /\ prog = "parseEmojiLineA"
    /\ pc = "call"
    /\ \E r \in {parseEmojiLineA(line, currentSubgroup)} :
           /\ emojis' = r.emojis
           /\ currentSubgroup' = r.ctx
           /\ panicked' = r.panic
    /\ pc' = "returned"
    /\ UNCHANGED <<prog, line, shape, codePointStr, emojiChar>>
    /\ UNCHANGED mainVars

NextParseA == CallParseEmojiLineA

SpecParseA == InitParseA /\ [][NextParseA]_vars

-----------------------------------------------------------------------------
(* Claims about parseEmojiLine of format A                                 *)

ReturnedA == prog = "parseEmojiLineA" /\ pc = "returned"

\* The text after the first '#' that follows the first ';' of a line.
Annotation(l) == SplitN2(SplitN2(l, S(";"))[2], S("#"))[2]

BannedInDescription == UnicodeSpace \cup {",", ":"} \cup CurlyQuotes

\* A line '<code-points> ; fully-qualified # <glyph> E<major>.<minor>
\* <description>' whose description is one the Unicode file could hold.
C1_WellFormed ==
    /\ shape.sh.kind = "data"
    /\ shape.sh.qual = FullyQualified
    /\ shape.sh.tag \in VersionTags
    /\ shape.sh.desc \in DescriptionsUnicode
    /\ shape.ctx # Nil

\* C1: for every well-formed fully-qualified line, processed with a subgroup
\* context, parseEmojiLine returns exactly one record, and its description
\* holds no whitespace, comma, colon or curly quote.
C1_OneCleanRecord ==
    ReturnedA /\ C1_WellFormed =>
        /\ ~panicked
        /\ Len(emojis) = 1
        /\ Range(emojis[1].Description) \cap BannedInDescription = {}

C2_Excluded ==
    \/ Contains(line, S("minimally-qualified"))
    \/ Contains(line, S("unqualified"))
    \/ Contains(line, S("component"))

C2_NothingHappened ==
    /\ ~panicked
    /\ emojis = <<>>
    /\ currentSubgroup = shape.ctx

\* C2 as stated: every line annotated minimally-qualified or unqualified, or
\* containing 'component', yields no record and leaves the subgroup context
\* as it was, whatever the context is.
C2_ExcludedNoRecordSameContext ==
    ReturnedA /\ C2_Excluded =>
        emojis = <<>> /\ currentSubgroup = shape.ctx

\* C2 amended: every such line that does not begin with the subgroup-header
\* marker '# subgroup:' yields no record and leaves the subgroup context as
\* it was, whatever the context is.
C2_ExcludedNonHeaderNoRecord ==
    ReturnedA /\ C2_Excluded /\ ~HasPrefix(line, SubgroupPrefix)
        => C2_NothingHappened

\* An unqualified data line and a fully-qualified line containing
\* 'component' were parsed.
C2_Witness ==
    /\ ReturnedA
    /\ shape.sh.kind = "data"
    /\ \/ shape.sh.qual = S("unqualified")
       \/ shape.sh.qual = FullyQualified /\ shape.sh.desc = S("spare component")
    /\ shape.sh.tag \in VersionTags
    /\ C2_NothingHappened

\* C9: a line that passes the line filter but whose trailing annotation does
\* not match '<glyph> E<digits>.<digits> <description>' yields no record.
C9_NoMatchNoRecord ==
    /\ ReturnedA
    /\ ~HasPrefix(line, SubgroupPrefix)
    /\ ~SkipLine(line)
    /\ shape.ctx # Nil
    /\ Len(SplitN2(SplitN2(line, S(";"))[2], S("#"))) = 2
    /\ FindStringSubmatch(Annotation(line)) = <<>>
    => emojis = <<>>

\* C11: parseEmojiLine of format A, called with any line and a subgroup
\* context that is not nil, returns no record or exactly one and does not
\* panic: on a line that passes the filter, the text after the first ';'
\* holds a '#'.
C11_NoPanic ==
    ReturnedA /\ shape.ctx # Nil =>
        /\ ~panicked
        /\ Len(emojis) <= 1
        /\ ~HasPrefix(line, SubgroupPrefix) /\ ~SkipLine(line)
               => Contains(SplitN2(line, S(";"))[2], S("#"))

-----------------------------------------------------------------------------
(* Format B: src/src/main.go and src/unnamed/part_001                      *)

EmojiDataB(cp, d) == [CodePoint |-> cp, Description |-> d]

\* The loop of parseEmojiLine over codePointsSplit: index i (from 1) is
\* paired with descriptionsSplit[i] when there is one, and dropped if not.
RECURSIVE PairEndpoints(_, _, _)
PairEndpoints(cps, ds, i) ==
    IF i > Len(cps) THEN <<>>
    ELSE IF i <= Len(ds)
         THEN <<EmojiDataB(cps[i], ds[i])>> \o PairEndpoints(cps, ds, i + 1)
         ELSE PairEndpoints(cps, ds, i + 1)

\* parseEmojiLine past its test of the number of fields, the '#' comment
\* left in the description field.
ParseFieldsKeepComment(parts) ==
    PairEndpoints(Split(TrimSpace(parts[1]), S("..")),
                  Split(TrimSpace(parts[3]), S("..")),
                  1)

\* parseEmojiLine past its test of the number of fields.
ParseFieldsB(parts) ==
    PairEndpoints(Split(TrimSpace(parts[1]), S("..")),
                  Split(TrimSpace(Split(parts[3], S("#"))[1]), S("..")),
                  1)

ParseSplitB(parts) == IF Len(parts) < 3 THEN <<>> ELSE ParseFieldsB(parts)

\* parseEmojiLine(line) of format B: the returned slice.
parseEmojiLineB(l) == ParseSplitB(Split(l, S(";")))

\* Value of a digit in base 16; package strconv takes both cases.
HexDigits == S("0123456789ABCDEF")

HexLower == S("0123456789abcdef")

IsHex(c) == c \in Range(HexDigits) \cup Range(HexLower)

HexValue(c) ==
    (CHOOSE i \in 1..16 : HexDigits[i] = c \/ HexLower[i] = c) - 1

\* 2^27: a magnitude below it takes any further digit within 32 bits.
Pow2_27 == 134217728

\* The largest int32.
MaxInt32 == 2147483647

\* The largest code point, unicode.MaxRune.
MaxRune == 1114111

SurrogateMin == 55296

SurrogateMax == 57343

\* U+FFFD, which the conversion of a []rune writes for a rune that is no
\* Unicode scalar value.
RuneError == 65533

\* What strconv returns: a value, or an error (syntax or range).
Parsed(v) == [err |-> FALSE, v |-> v]

ParseError == [err |-> TRUE, v |-> 0]

\* One more digit d after the negated magnitude nv stays within 2^31.
Fits(nv, d) == nv >= -(IF d = 0 THEN Pow2_27 ELSE Pow2_27 - 1)

\* The digits of a token from position i on, accumulated as the negated
\* magnitude nv (so that 2^31 fits).  st is "ok", "range" once the magnitude
\* exceeds 2^31, or "syntax" for a character that is no digit.
RECURSIVE Accumulate(_, _, _, _)
Accumulate(cp, i, st, nv) ==
    IF i > Len(cp) THEN [st |-> st, nv |-> nv]
    ELSE IF ~IsHex(cp[i]) THEN [st |-> "syntax", nv |-> 0]
    ELSE IF st = "range" \/ ~Fits(nv, HexValue(cp[i]))
         THEN Accumulate(cp, i + 1, "range", 0)
         ELSE Accumulate(cp, i + 1, "ok", nv * 16 - HexValue(cp[i]))

\* The signed value of an accumulated magnitude, within int32.
Signed(neg, a) ==
    IF a.st # "ok" THEN ParseError
    ELSE IF neg THEN Parsed(a.nv)
    ELSE IF a.nv < -MaxInt32 THEN ParseError
    ELSE Parsed(-a.nv)

\* ParseInt that takes a token with a character that is no digit as 0.
ParseIntLenient(cp) ==
    IF cp # <<>> /\ \A k \in DOMAIN cp : IsHex(cp[k])
    THEN Signed(FALSE, Accumulate(cp, 1, "ok", 0)) ELSE Parsed(0)

\* strconv.ParseInt(cp, 16, 32).
ParseInt(cp) ==
    IF cp = <<>> THEN ParseError
    ELSE IF cp[1] \in {"+", "-"}
         THEN IF Len(cp) = 1 THEN ParseError
              ELSE Signed(cp[1] = "-", Accumulate(cp, 2, "ok", 0))
         ELSE Signed(FALSE, Accumulate(cp, 1, "ok", 0))

\* The character string([]rune{r}) holds for rune r.
RuneToChar(r) ==
    IF r < 0 \/ r > MaxRune \/ (r >= SurrogateMin /\ r <= SurrogateMax)
    THEN RuneError ELSE r

\* The loop body: a token that does not parse is skipped.
AppendRune(runes, r) == IF r.err THEN runes ELSE Append(runes, r.v)

\* The loop of convertCodePointToEmoji over the fields.
RECURSIVE ConvertFields(_, _)
ConvertFields(cps, runes) ==
    IF cps = <<>> THEN runes
    ELSE ConvertFields(Tail(cps), AppendRune(runes, ParseInt(Head(cps))))

RunesToString(runes) == [i \in DOMAIN runes |-> RuneToChar(runes[i])]

\* convertCodePointToEmoji(codePointStr): the string returned, as the
\* sequence of its code points.
convertCodePointToEmoji(str) ==
    RunesToString(ConvertFields(Fields(str), <<>>))

-----------------------------------------------------------------------------
(* Input lines of format B (emoji-sequences.txt)                           *)

\* Code-point fields, as their endpoints: one, a range, a sequence of two
\* code points, and three endpoints.
CodePointEndsB ==
    { <<S("1F600")>>,
      <<S("231A"), S("231B")>>,
      <<S("1F1E6 1F1E8")>>,
      <<S("A"), S("B"), S("C")>> }

TypeFieldsB == {S("Emoji"), S("Basic_Emoji")}

DescriptionEndsB ==
    { <<S("grinning face")>>,
      <<S("watch"), S("hourglass done")>>,
      <<S("a"), S("b"), S("c")>> }

PaddingB == {S(" "), S("    ")}

\* The trailing comment: none, the one of the spec's example, and one that
\* holds a '..' itself.
CommentsB == {<<>>, S(" # (placeholder)"), S("   # E0.6 [2] (x..y)")}

FieldShapes ==
    [kind : {"fields"}, cps : CodePointEndsB, type : TypeFieldsB,
     ds : DescriptionEndsB, pad : PaddingB, comment : CommentsB]

\* Lines with fewer than three fields, and one with four.
OtherLinesB ==
    { S("# Format: code_point(s) ; type_field ; description # comments"),
      S("1F600 ; Emoji"),
      S("a;b;c;d"),
      S(";;"),
      <<>> }

LineOfB(sh) ==
    IF sh.kind = "fields"
    THEN Join(sh.cps, S("..")) \o sh.pad \o S("; ") \o sh.type \o S(" ; ")
         \o Join(sh.ds, S("..")) \o sh.comment
    ELSE sh.text

InitParseB ==
    /\ prog = "parseEmojiLineB"
    /\ pc = "call"
    /\ shape \in FieldShapes \cup [kind : {"other"}, text : OtherLinesB]
    /\ line = LineOfB(shape)
    /\ currentSubgroup = Nil
    /\ emojis = NoResult
    /\ panicked = FALSE
    /\ Unused

CallParseEmojiLineB ==
    /\ prog = "parseEmojiLineB"
    /\ pc = "call"
    /\ emojis' = parseEmojiLineB(line)
    /\ pc' = "returned"
    /\ UNCHANGED <<prog, line, shape, currentSubgroup, panicked,
                   codePointStr, emojiChar>>
    /\ UNCHANGED mainVars

NextParseB == CallParseEmojiLineB

SpecParseB == InitParseB /\ [][NextParseB]_vars

ReturnedB == prog = "parseEmojiLineB" /\ pc = "returned"

Min(a, b) == IF a < b THEN a ELSE b

SpecExampleB == S("1F600 ; Emoji ; grinning face # (placeholder)")

\* C4: for a line of at least three fields, parseEmojiLine of format B splits
\* the code-point field and the description field, its '#' comment removed,
\* on '..' and returns the endpoints paired by position, as many records as
\* the shorter side has endpoints; the spec's example line yields the one
\* record ('1F600', 'grinning face').
C4_PairedByPosition ==
    /\ ReturnedB /\ shape.kind = "fields" =>
        /\ Len(emojis) = Min(Len(shape.cps), Len(shape.ds))
        /\ \A i \in DOMAIN emojis :
              /\ emojis[i].CodePoint = shape.cps[i]
              /\ emojis[i].Description = shape.ds[i]
    /\ ReturnedB /\ line = SpecExampleB =>
        emojis = <<[CodePoint |-> S("1F600"),
                    Description |-> S("grinning face")]>>

\* A range on both sides, behind a comment, gave two records.
C4_Witness ==
    /\ ReturnedB
    /\ shape.kind = "fields"
    /\ Len(shape.cps) = 2
    /\ Len(shape.ds) = 2
    /\ shape.comment # <<>>
    /\ Len(emojis) = 2
    /\ emojis[2].Description = S("hourglass done")

-----------------------------------------------------------------------------
(* convertCodePointToEmoji, called on one string                           *)

Token(text, valid, char) == [text |-> S(text), valid |-> valid, char |-> char]

\* Tokens, each with whether it is a base-16 integer of 32 bits and the
\* code point of the character it denotes (U+FFFD when it denotes none).
TokensB ==
    { Token("1F600", TRUE, 128512),
      Token("1F1FA", TRUE, 127482),
      Token("1F1F8", TRUE, 127480),
      Token("1f600", TRUE, 128512),
      Token("ZZZZ", FALSE, 0),
      Token("0x41", FALSE, 0),
      Token("FFFFFFFF", FALSE, 0),
      Token("80000000", FALSE, 0),
      Token("-80000000", TRUE, 65533),
      Token("-1F", TRUE, 65533),
      Token("D800", TRUE, 65533),
      Token("110000", TRUE, 65533) }

\* The largest number of tokens of an input.
MaxTokens == 2

TokenLists == UNION {[1..n -> TokensB] : n \in 0..MaxTokens}

SeparatorsB == {S(" "), S("\t ")}

Texts(ts) == [i \in DOMAIN ts |-> ts[i].text]

InitConvert ==
    /\ prog = "convertCodePointToEmoji"
    /\ pc = "call"
    /\ shape \in [tokens : TokenLists, sep : SeparatorsB, edge : {<<>>, S(" ")}]
    /\ codePointStr = shape.edge \o Join(Texts(shape.tokens), shape.sep)
                      \o shape.edge
    /\ emojiChar = <<>>
    /\ line = <<>>
    /\ currentSubgroup = Nil
    /\ emojis = NoResult
    /\ panicked = FALSE
    /\ UnusedMain

CallConvertCodePointToEmoji ==
    /\ prog = "convertCodePointToEmoji"
    /\ pc = "call"
    /\ emojiChar' = convertCodePointToEmoji(codePointStr)
    /\ pc' = "returned"
    /\ UNCHANGED <<prog, line, shape, currentSubgroup, emojis, panicked,
                   codePointStr>>
    /\ UNCHANGED mainVars

NextConvert == CallConvertCodePointToEmoji

SpecConvert == InitConvert /\ [][NextConvert]_vars

ReturnedConvert == prog = "convertCodePointToEmoji" /\ pc = "returned"

IsValidToken(t) == t.valid

ValidTokens(ts) == SelectSeq(ts, IsValidToken)

\* C5: convertCodePointToEmoji returns, in input order, one character for
\* each token that parses as a base-16 integer and nothing for a token that
\* does not: '1F600' gives one character, '1F1FA 1F1F8' two, 'ZZZZ' none.
C5_OneCharPerValidToken ==
    /\ ReturnedConvert =>
        /\ Len(emojiChar) = Len(ValidTokens(shape.tokens))
        /\ \A i \in DOMAIN emojiChar :
              emojiChar[i] = ValidTokens(shape.tokens)[i].char
    /\ ReturnedConvert /\ codePointStr = S("1F600") => emojiChar = <<128512>>
    /\ ReturnedConvert /\ codePointStr = S("1F1FA 1F1F8") =>
        emojiChar = <<127482, 127480>>
    /\ ReturnedConvert /\ codePointStr = S("ZZZZ") => emojiChar = <<>>

\* An invalid token before a valid one was skipped.
C5_Witness ==
    /\ ReturnedConvert
    /\ Len(shape.tokens) = 2
    /\ ~shape.tokens[1].valid
    /\ shape.tokens[2].valid
    /\ emojiChar = <<shape.tokens[2].char>>

-----------------------------------------------------------------------------
(* Files, the snippet emitter and the archive builder                      *)

\* Index of the last occurrence of character c in s, 0 if none.
RECURSIVE LastIndex(_, _, _)
LastIndex(s, c, i) ==
    IF i = 0 THEN 0 ELSE IF s[i] = c THEN i ELSE LastIndex(s, c, i - 1)

\* filepath.Split(path): the file part, what follows the last '/'.
BaseName(path) == SubSeq(path, LastIndex(path, "/", Len(path)) + 1, Len(path))

\* filepath.Join(dir, name) for a name that Clean leaves as it is (no '/',
\* not '.' or '..'): an empty dir is ignored.
JoinPath(dir, name) == IF dir = <<>> THEN name ELSE dir \o S("/") \o name

\* The disk after os.WriteFile(path, content) succeeded.
WriteFile(d, path, content) ==
    [q \in DOMAIN d \cup {path} |-> IF q = path THEN content ELSE d[q]]

\* The disk without the files under directory dir (os.RemoveAll).
RemoveAll(d, dir) ==
    [q \in {x \in DOMAIN d : ~HasPrefix(x, dir \o S("/"))} |-> d[q]]

\* The disk without the file named path, if there is one (os.Remove).
Remove(d, path) == [q \in DOMAIN d \ {path} |-> d[q]]

\* generateUID: the n-th identifier, unlike every other.
generateUID(n) == <<"UUID-" \o ToString(n)>>

\* The name main gives the snippet file of a record.
SnippetFileName(dir, description, uid) ==
    JoinPath(dir, description \o S(" [") \o uid \o S("].json"))

\* The document generateAlfredSnippetJSON marshals, format A.
AlfredSnippetA(emoji, emojiCh, uid) ==
    [snippet |-> emojiCh,
     uid     |-> uid,
     name    |-> S("(") \o emoji.Subgroup \o S(") ") \o emoji.Description,
     keyword |-> emoji.Description]

\* The document generateAlfredSnippetJSON marshals, format B.
AlfredSnippetB(emoji, emojiCh, uid) ==
    [snippet |-> emojiCh,
     uid     |-> uid,
     name    |-> emoji.Description,
     keyword |-> ReplaceAll(emoji.Description, <<" ">>, <<"-">>)]

\* Content of info.plist and of the icon.
PlistContent == <<"plist">>

IconContent == <<"png">>

ZipEntry(name, content) == [name |-> name, content |-> content]

\* The entry name addFileToZip uses: the file part of the path in A
\* (zipWriter.Create(name)), the path as given in B (header.Name = fileName).
EntryName(variant, filename) ==
    IF variant = "A" THEN BaseName(filename) ELSE filename

\* The loop of zipFiles over files: addFileToZip fails on a file that cannot
\* be opened, and the loop returns at once, the entries written so far left
\* in the archive.
RECURSIVE ZipLoop(_, _, _, _)
ZipLoop(variant, d, files, entries) ==
    IF files = <<>> THEN [err |-> FALSE, entries |-> entries]
    ELSE IF Head(files) \notin DOMAIN d
    THEN [err |-> TRUE, entries |-> entries]
    ELSE ZipLoop(variant, d, Tail(files),
                 Append(entries,
                        ZipEntry(EntryName(variant, Head(files)),
                                 d[Head(files)])))

\* zipFiles(filename, files) once os.Create succeeded.
zipFiles(variant, d, files) == ZipLoop(variant, d, files, <<>>)

-----------------------------------------------------------------------------
(* zipFiles, called on a list of paths                                     *)

FileAt(dir, base) == [dir |-> S(dir), base |-> S(base)]

PathOf(f) == JoinPath(f.dir, f.base)

\* Files on disk when zipFiles is called, by directory and base name.
FilesOnDisk ==
    { FileAt("build", "grinning-face [1].json"),
      FileAt("build", "info.plist"),
      FileAt("..", "icon.png"),
      FileAt("", "info.plist") }

\* A path that names no file.
FilesMissing == {FileAt("", "gone.json")}

\* The largest number of paths handed to zipFiles.
MaxFiles == 2

FileLists ==
    UNION {[1..n -> FilesOnDisk \cup FilesMissing] : n \in 0..MaxFiles}

\* Each file holds its own path, so that no two contents are equal.
DiskOf(fs) == [q \in {PathOf(f) : f \in fs} |-> <<"content of">> \o q]

InitZip ==
    /\ prog = "zipFiles"
    /\ pc = "call"
    /\ shape \in [variant : {"A", "B"}, files : FileLists]
    /\ filesToZip = [i \in DOMAIN shape.files |-> PathOf(shape.files[i])]
    /\ disk = DiskOf(FilesOnDisk)
    /\ archive = NoArchive
    /\ err = FALSE
    /\ fetched = NotFetched
    /\ displayEmojis = FALSE
    /\ lines = <<>>
    /\ idx = 0
    /\ dirs = {S("build"), S("dist")}
    /\ console = <<>>
    /\ uidNext = 0
    /\ log = <<>>
    /\ line = <<>>
    /\ currentSubgroup = Nil
    /\ emojis = NoResult
    /\ panicked = FALSE
    /\ codePointStr = <<>>
    /\ emojiChar = <<>>

\* zipFiles: os.Create fails and nothing is written, or the loop runs.
CallZipFiles ==
    /\ prog = "zipFiles"
    /\ pc = "call"
    /\ \E created \in BOOLEAN, r \in {zipFiles(shape.variant, disk, filesToZip)} :
          IF created
          THEN /\ archive' = [exists |-> TRUE, entries |-> r.entries]
               /\ err' = r.err
          ELSE /\ archive' = archive
               /\ err' = TRUE
    /\ pc' = "returned"
    /\ UNCHANGED <<prog, line, shape, currentSubgroup, emojis, panicked,
                   codePointStr, emojiChar, fetched, displayEmojis, lines,
                   idx, filesToZip, disk, dirs, console, uidNext, log>>

NextZip == CallZipFiles

SpecZip == InitZip /\ [][NextZip]_vars

ReturnedZip == prog = "zipFiles" /\ pc = "returned"

\* C6: when zipFiles succeeds, the archive holds for each path, in order,
\* one entry named by the path's base name (not the full path) whose
\* content is the content of the file on disk.
C6_EntriesByBaseName ==
    ReturnedZip /\ ~err =>
        /\ archive.exists
        /\ Len(archive.entries) = Len(filesToZip)
        /\ \A i \in DOMAIN filesToZip :
              /\ archive.entries[i].name = shape.files[i].base
              /\ archive.entries[i].content = disk[filesToZip[i]]

-----------------------------------------------------------------------------
(* main of A (src/unnamed/part_000) and of B (src/src/main.go)             *)

\* bufio.Scanner with ScanLines over content: the text between newlines, a
\* trailing carriage return dropped; no empty last line.
DropCR(l) ==
    IF l # <<>> /\ l[Len(l)] = "\r" THEN SubSeq(l, 1, Len(l) - 1) ELSE l

DropLastEmpty(ls) ==
    IF ls[Len(ls)] = <<>> THEN SubSeq(ls, 1, Len(ls) - 1) ELSE ls

DropCRs(ls) == [i \in DOMAIN ls |-> DropCR(ls[i])]

ScanLines(content) == DropCRs(DropLastEmpty(Split(content, <<"\n">>)))

\* path.Split(url) of ".../emoji-test.txt": the name of the local copy.
CacheFileName == S("emoji-test.txt")

BuildDir == S("build")

DistDir == S("dist")

PlistPath(variant) == JoinPath(IF variant = "A" THEN BuildDir ELSE <<>>,
                               S("info.plist"))

IconPath(variant) == IF variant = "A" THEN S("../icon.png") ELSE S("icon.png")

\* What fetchEmojiData returns and leaves on disk.
FetchResult(e, ls, d) == [err |-> e, lines |-> ls, disk |-> d]

\* The lines the scanner delivered: all of them, or the first k when a read
\* failed (the scanner then stops, with its error set).
LinesRead(all, fault, k) == IF fault = "read" THEN SubSeq(all, 1, k) ELSE all

\* fetchEmojiData of A when the local copy exists: a failed os.Open is
\* returned; scanner.Err() is not looked at.
FetchLocalA(d, fault, k) ==
    IF fault = "open" THEN FetchResult(TRUE, <<>>, d)
    ELSE FetchResult(FALSE, LinesRead(ScanLines(d[CacheFileName]), fault, k), d)

\* The download of A: the lines read are written to the local copy.
Downloaded(d, got) ==
    FetchResult(FALSE, got, WriteFile(d, CacheFileName, Join(got, <<"\n">>)))

\* fetchEmojiData of A when there is no local copy: a failed http.Get is
\* returned; scanner.Err() is not looked at.
FetchRemoteA(d, remote, fault, k) ==
    IF fault = "get" THEN FetchResult(TRUE, <<>>, d)
    ELSE Downloaded(d, LinesRead(ScanLines(remote), fault, k))

\* fetchEmojiData(url) of A.
fetchEmojiDataA(d, remote, fault, k) ==
    IF CacheFileName \in DOMAIN d
    THEN FetchLocalA(d, fault, k)
    ELSE FetchRemoteA(d, remote, fault, k)

\* fetchEmojiData(url) of B: a failed http.Get, and scanner.Err().
fetchEmojiDataB(d, remote, fault, k) ==
    FetchResult(fault # "none", LinesRead(ScanLines(remote), fault, k), d)

\* The faults a retrieval can meet.
FaultsOf(variant, d) ==
    IF variant = "B" THEN {"none", "get", "read"}
    ELSE IF CacheFileName \in DOMAIN d THEN {"none", "open", "read"}
    ELSE {"none", "get", "read"}

\* The subgroup that stays the first one seen.
SetSubgroupOnce(ctx, subgroup) == IF ctx = Nil THEN subgroup ELSE ctx

\* currentSubgroup = &subgroup.
SetSubgroup(ctx, subgroup) == subgroup

\* main's cleaning of a subgroup header.
CleanSubgroup(l) ==
    ReplaceAll(ReplaceAll(TrimSpace(TrimPrefix(l, SubgroupPrefix)),
                          <<"&">>, S("and")),
               <<" ">>, <<"-">>)

\* What the emission loop changes.
Emitted(files, d, out, uid, lg) ==
    [files |-> files, disk |-> d, console |-> out, uid |-> uid, log |-> lg]

LogEntry(lineIdx, rec, file, outcome) ==
    [line |-> lineIdx, rec |-> rec, file |-> file, outcome |-> outcome]

\* The snippet document of a record.
SnippetOf(variant, rec, uid) ==
    IF variant = "A"
    THEN AlfredSnippetA(rec, rec.Emoji, uid)
    ELSE AlfredSnippetB(rec, convertCodePointToEmoji(rec.CodePoint), uid)

\* The list of files to archive that grows by every file, written or not.
FilesAfterListsFailed(files, file, fail) == Append(files, file)

\* The list of files to archive after one record: the file is added when
\* generateAlfredSnippetJSON returned no error.
FilesAfter(files, file, fail) == IF fail THEN files ELSE Append(files, file)

\* The loop body of main for one record in package mode, file being the
\* snippet file's name: generateAlfredSnippetJSON fails and the record is
\* reported, or the file is written.
WriteSnippet(variant, st, rec, lineIdx, uid, file, fail) ==
    IF fail
    THEN Emitted(FilesAfter(st.files, file, fail), st.disk,
                 Append(st.console,
                        [kind |-> "json-error", description |-> rec.Description]),
                 st.uid + 1,
                 Append(st.log, LogEntry(lineIdx, rec, file, "failed")))
    ELSE Emitted(FilesAfter(st.files, file, fail),
                 WriteFile(st.disk, file, SnippetOf(variant, rec, uid)),
                 st.console,
                 st.uid + 1,
                 Append(st.log, LogEntry(lineIdx, rec, file, "written")))

SnippetDir(variant) == IF variant = "A" THEN BuildDir ELSE <<>>

EmitPackage(variant, st, rec, lineIdx, uid, fail) ==
    WriteSnippet(variant, st, rec, lineIdx, uid,
                 SnippetFileName(SnippetDir(variant), rec.Description, uid),
                 fail)

\* The loop body in preview mode: A prints the emoji and its description,
\* B does nothing.
EmitPreview(variant, st, rec, lineIdx) ==
    IF variant = "A"
    THEN Emitted(st.files, st.disk,
                 Append(st.console,
                        [kind |-> "emoji", emoji |-> rec.Emoji,
                         description |-> rec.Description]),
                 st.uid,
                 Append(st.log, LogEntry(lineIdx, rec, <<>>, "printed")))
    ELSE Emitted(st.files, st.disk, st.console, st.uid,
                 Append(st.log, LogEntry(lineIdx, rec, <<>>, "dropped")))

EmitOne(variant, preview, st, rec, lineIdx, fail) ==
    IF preview
    THEN EmitPreview(variant, st, rec, lineIdx)
    ELSE EmitPackage(variant, st, rec, lineIdx, generateUID(st.uid), fail)

\* main's loop over the records of one line; fails holds the indices of the
\* records whose file cannot be written.
RECURSIVE EmitAll(_, _, _, _, _, _, _)
EmitAll(variant, preview, st, recs, i, lineIdx, fails) ==
    IF i > Len(recs) THEN st
    ELSE EmitAll(variant, preview,
                 EmitOne(variant, preview, st, recs[i], lineIdx, i \in fails),
                 recs, i + 1, lineIdx, fails)

\* What the packaging changes.
Packaged(files, d, ds, out, ar) ==
    [files |-> files, disk |-> d, dirs |-> ds, console |-> out, archive |-> ar]

\* The end of main once zipFiles ran: on success the build directory is
\* removed in A, and a file named "*.json" in B.
AfterZip(variant, files, d, ds, out, ar, r) ==
    IF r.err
    THEN Packaged(files, d, ds, Append(out, [kind |-> "zip-error"]),
                  [exists |-> TRUE, entries |-> r.entries])
    ELSE IF variant = "A"
    THEN Packaged(files, RemoveAll(d, BuildDir), ds \ {BuildDir},
                  Append(out, [kind |-> "created"]),
                  [exists |-> TRUE, entries |-> r.entries])
    ELSE Packaged(files, Remove(d, S("*.json")), ds,
                  Append(out, [kind |-> "created"]),
                  [exists |-> TRUE, entries |-> r.entries])

\* The end of main from the call of zipFiles: os.Create fails, or the files
\* are archived.
ZipStep(variant, files, d, ds, out, ar, created) ==
    IF ~created
    THEN Packaged(files, d, ds, Append(out, [kind |-> "zip-error"]), ar)
    ELSE AfterZip(variant, files, d, ds, out, ar, zipFiles(variant, d, files))

\* The end of main in package mode: info.plist is written and listed, or
\* its failure reported; the icon is listed; the files are archived.
PackageStep(variant, files, d, ds, out, ar, plistOk, created) ==
    IF plistOk
    THEN ZipStep(variant,
                 files \o <<PlistPath(variant), IconPath(variant)>>,
                 WriteFile(d, PlistPath(variant), PlistContent),
                 ds, out, ar, created)
    ELSE ZipStep(variant,
                 Append(files, IconPath(variant)),
                 d, ds, Append(out, [kind |-> "plist-error"]), ar, created)

\* What one iteration of main's loop over the lines changes.
Looped(ctx, recs, pnc, st) ==
    [ctx |-> ctx, emojis |-> recs, panic |-> pnc, st |-> st]

\* The iteration of A after parseEmojiLine returned r (or panicked).
AfterParseA(r, preview, st, lineIdx, fails) ==
    IF r.panic
    THEN Looped(r.ctx, <<>>, TRUE, st)
    ELSE Looped(r.ctx, r.emojis, FALSE,
                EmitAll("A", preview, st, r.emojis, 1, lineIdx, fails))

\* One iteration of the loop of A: a header sets the subgroup; any other
\* line is parsed once a subgroup is set.
LoopBodyA(l, ctx, preview, st, lineIdx, fails) ==
    IF HasPrefix(l, SubgroupPrefix)
    THEN Looped(SetSubgroup(ctx, CleanSubgroup(l)), <<>>, FALSE, st)
    ELSE IF ctx = Nil
    THEN Looped(ctx, <<>>, FALSE, st)
    ELSE AfterParseA(parseEmojiLineA(l, ctx), preview, st, lineIdx, fails)

\* The iteration of B over the records of the line.
EmitLineB(recs, preview, st, lineIdx, fails) ==
    Looped(Nil, recs, FALSE, EmitAll("B", preview, st, recs, 1, lineIdx, fails))

\* One iteration of the loop of B.
LoopBodyB(l, preview, st, lineIdx, fails) ==
    EmitLineB(parseEmojiLineB(l), preview, st, lineIdx, fails)

\* The lines of a source file, each with what it is and what it names: the
\* subgroup for a header of A, the descriptions for a data line of B.
SourceLine(text, kind, name) == [text |-> text, kind |-> kind, name |-> name]

\* How many records main draws from line i of a source file.
RecordsOf(variant, source, i) ==
    IF source[i].kind # "data" THEN 0
    ELSE IF variant = "B" THEN Len(source[i].name)
    ELSE IF \E h \in 1..(i - 1) : source[h].kind = "header" THEN 1
    ELSE 0

SourceLinesA ==
    { SourceLine(S("# subgroup: face-smiling"), "header", S("face-smiling")),
      SourceLine(S("# subgroup: food & drink"), "header", S("food-and-drink")),
      SourceLine(S("1F600 ; fully-qualified # ") \o GLYPH
                     \o S(" E1.0 grinning face"), "data", <<>>),
      SourceLine(S("1F44B ; unqualified # ") \o GLYPH
                     \o S(" E0.6 waving hand"), "excluded", <<>>) }

SourceLinesB ==
    { SourceLine(S("# emoji-sequences.txt"), "comment", <<>>),
      SourceLine(S("1F600 ; Basic_Emoji ; grinning face # E1.0"), "data",
                 <<S("grinning face")>>),
      SourceLine(S("231A..231B ; Basic_Emoji ; watch..hourglass done # E0.6"),
                 "data", <<S("watch"), S("hourglass done")>>) }

MaxLines == 4

MaxLinesB == 2

SourcesOver(palette, n) == UNION { [1..k -> palette] : k \in 0..n }

TextOf(source) == [i \in DOMAIN source |-> source[i].text]

\* The content of a file of these lines, each ended by a newline.
ContentOf(source) ==
    IF source = <<>> THEN <<>> ELSE Join(TextOf(source), <<"\n">>) \o <<"\n">>

\* Where a run starts: the icon present or not, the local copy of the source
\* file present or not.
Environments ==
    { [cached |-> FALSE, icon |-> TRUE],
      [cached |-> TRUE, icon |-> TRUE],
      [cached |-> FALSE, icon |-> FALSE] }

IconOn(variant, env) ==
    IF env.icon THEN {<<IconPath(variant), IconContent>>} ELSE {}

CacheOn(env, source) ==
    IF env.cached THEN {<<CacheFileName, ContentOf(source)>>} ELSE {}

DiskFrom(pairs) ==
    [q \in {pr[1] : pr \in pairs} |-> (CHOOSE pr \in pairs : pr[1] = q)[2]]

VariantOf(p) == IF p = "mainA" THEN "A" ELSE "B"

MainShapes(p) ==
    IF p = "mainA"
    THEN [source : SourcesOver(SourceLinesA, MaxLines), env : Environments]
    ELSE [source : SourcesOver(SourceLinesB, MaxLinesB),
          env : {e \in Environments : ~e.cached}]

Disk0(p, sh) ==
    DiskFrom(IconOn(VariantOf(p), sh.env) \cup
             (IF p = "mainA" THEN CacheOn(sh.env, sh.source) ELSE {}))

InitMain ==
    /\ prog \in {"mainA", "mainB"}
    /\ pc = "start"
    /\ displayEmojis \in BOOLEAN
    /\ shape \in MainShapes(prog)
    /\ disk = Disk0(prog, shape)
    /\ dirs = {}
    /\ err = FALSE
    /\ fetched = NotFetched
    /\ lines = <<>>
    /\ idx = 0
    /\ filesToZip = <<>>
    /\ console = <<>>
    /\ uidNext = 0
    /\ archive = NoArchive
    /\ log = <<>>
    /\ line = <<>>
    /\ currentSubgroup = Nil
    /\ emojis = NoResult
    /\ panicked = FALSE
    /\ codePointStr = <<>>
    /\ emojiChar = <<>>

fetchEmojiData(variant, d, remote, fault, k) ==
    IF variant = "A"
    THEN fetchEmojiDataA(d, remote, fault, k)
    ELSE fetchEmojiDataB(d, remote, fault, k)

\* What fetchEmojiData prints: in A, which of the local copy and the
\* download it reads.
FetchNotice(variant, d) ==
    IF variant = "B" THEN <<>>
    ELSE IF CacheFileName \in DOMAIN d THEN <<[kind |-> "using-file"]>>
    ELSE <<[kind |-> "downloading"]>>

\* How many lines a failing read can have delivered.
ReadPrefixes(fault, n) == IF fault = "read" THEN 0..(n - 1) ELSE {0}

\* main up to the loop: the two directories are made, the flags parsed, the
\* source file fetched; on an error the diagnostic is printed and main
\* returns.
MainFetch ==
    /\ prog \in {"mainA", "mainB"}
    /\ pc = "start"
    /\ dirs' = dirs \cup {BuildDir, DistDir}
    /\ \E fault \in FaultsOf(VariantOf(prog), disk) :
       \E k \in ReadPrefixes(fault, Len(shape.source)) :
       \E r \in {fetchEmojiData(VariantOf(prog), disk, ContentOf(shape.source),
                                fault, k)} :
          /\ fetched' = [fault |-> fault, done |-> TRUE]
          /\ err' = r.err
          /\ disk' = r.disk
          /\ IF r.err
             THEN /\ console' = console \o FetchNotice(VariantOf(prog), disk)
                                     \o <<[kind |-> "fetch-error"]>>
                  /\ lines' = <<>>
                  /\ idx' = 0
                  /\ pc' = "done"
             ELSE /\ console' = console \o FetchNotice(VariantOf(prog), disk)
                  /\ lines' = r.lines
                  /\ idx' = 1
                  /\ pc' = "scan"
    /\ UNCHANGED <<prog, shape, displayEmojis, filesToZip, uidNext, archive,
                   log, line, currentSubgroup, emojis, panicked, codePointStr,
                   emojiChar>>

\* The files whose write fails, among the records of one line.
FailureSets(preview, n) == IF preview THEN {{}} ELSE SUBSET (1..n)

EmittedNow == Emitted(filesToZip, disk, console, uidNext, log)

\* One iteration of the loop over the lines, with everything it emits.
MainScanLine(r) ==
    /\ line' = lines[idx]
    /\ idx' = idx + 1
    /\ currentSubgroup' = r.ctx
    /\ emojis' = r.emojis
    /\ panicked' = r.panic
    /\ pc' = IF r.panic THEN "panic" ELSE pc
    /\ filesToZip' = r.st.files
    /\ disk' = r.st.disk
    /\ console' = r.st.console
    /\ uidNext' = r.st.uid
    /\ log' = r.st.log
    /\ UNCHANGED <<prog, shape, displayEmojis, err, fetched, lines, dirs,
                   archive, codePointStr, emojiChar>>

MainScanLineA ==
    /\ prog = "mainA"
    /\ pc = "scan"
    /\ idx <= Len(lines)
    /\ \E fails \in FailureSets(displayEmojis, 1) :
       \E r \in {LoopBodyA(lines[idx], currentSubgroup, displayEmojis,
                           EmittedNow, idx, fails)} :
          MainScanLine(r)

MainScanLineB ==
    /\ prog = "mainB"
    /\ pc = "scan"
    /\ idx <= Len(lines)
    /\ \E fails \in FailureSets(displayEmojis, 2) :
       \E r \in {LoopBodyB(lines[idx], displayEmojis, EmittedNow, idx, fails)} :
          MainScanLine(r)

\* main after the loop: nothing more in preview mode; in package mode the
\* manifest, the icon and the archive.
MainPackage ==
    /\ prog \in {"mainA", "mainB"}
    /\ pc = "scan"
    /\ idx > Len(lines)
    /\ pc' = "done"
    /\ IF displayEmojis
       THEN UNCHANGED <<filesToZip, disk, dirs, console, archive>>
       ELSE \E plistOk \in BOOLEAN, created \in BOOLEAN :
            \E r \in {PackageStep(VariantOf(prog), filesToZip, disk, dirs,
                                  console, archive, plistOk, created)} :
               /\ filesToZip' = r.files
               /\ disk' = r.disk
               /\ dirs' = r.dirs
               /\ console' = r.console
               /\ archive' = r.archive
    /\ UNCHANGED <<prog, shape, displayEmojis, err, fetched, lines, idx,
                   uidNext, log, line, currentSubgroup, emojis, panicked,
                   codePointStr, emojiChar>>

NextMain == MainFetch \/ MainScanLineA \/ MainScanLineB \/ MainPackage

SpecMain == InitMain /\ [][NextMain]_vars

-----------------------------------------------------------------------------
(* Properties of the two mains                                             *)

RunA == prog = "mainA"

Run == prog \in {"mainA", "mainB"}

\* The last header before line i of the source file (0 when there is none).
HeaderBefore(source, i) ==
    IF \E h \in 1..(i - 1) : source[h].kind = "header"
    THEN CHOOSE h \in 1..(i - 1) :
            /\ source[h].kind = "header"
            /\ \A g \in (h + 1)..(i - 1) : source[g].kind # "header"
    ELSE 0

\* C3: in the line scan of A, every record carries the subgroup named by the
\* last header before its line, so the N records of the data lines that
\* follow one header carry the same subgroup and a later header changes the
\* subgroup of the records after it only; every accepted data line below a
\* header gives a record.
C3_SubgroupOfLastHeader ==
    RunA =>
        /\ \A j \in DOMAIN log :
              /\ HeaderBefore(shape.source, log[j].line) # 0
              /\ log[j].rec.Subgroup =
                     shape.source[HeaderBefore(shape.source, log[j].line)].name
        /\ \A i \in 1..(idx - 1) :
              RecordsOf("A", shape.source, i) = 1
                  => \E j \in DOMAIN log : log[j].line = i

\* C3 witness: a run of A ended with two records, the first under one header
\* and the second under a later header, with different subgroups.
C3_Witness ==
    /\ RunA
    /\ pc = "done"
    /\ Len(log) = 2
    /\ log[1].rec.Subgroup = S("face-smiling")
    /\ log[2].rec.Subgroup = S("food-and-drink")

RECURSIVE RecordsUpTo(_, _, _)
RecordsUpTo(variant, source, n) ==
    IF n = 0 THEN 0
    ELSE RecordsUpTo(variant, source, n - 1) + RecordsOf(variant, source, n)

Occurrences(seq, x) == Cardinality({i \in DOMAIN seq : seq[i] = x})

Reported(description) ==
    \E c \in DOMAIN console :
        /\ console[c].kind = "json-error"
        /\ console[c].description = description

\* C7: in package mode a record whose snippet file could not be written is
\* reported and its file is not in the list of files to archive; the file
\* of every record written is in the list exactly once; the run goes through
\* every record of every line read and ends with the archive step.
C7_FailureSkipsOneRecord ==
    Run /\ ~displayEmojis =>
        /\ \A j \in DOMAIN log :
              IF log[j].outcome = "failed"
              THEN /\ Occurrences(filesToZip, log[j].file) = 0
                   /\ Reported(log[j].rec.Description)
              ELSE /\ log[j].outcome = "written"
                   /\ Occurrences(filesToZip, log[j].file) = 1
        /\ pc = "done" /\ ~err =>
              /\ Len(log) = RecordsUpTo(VariantOf(prog), shape.source, Len(lines))
              /\ console[Len(console)].kind \in {"created", "zip-error"}

\* C7 witness: a run ended with an archive made, in which the file of one
\* record failed and the file of a later record was written and archived.
C7_Witness ==
    /\ Run
    /\ pc = "done"
    /\ archive.exists
    /\ \E i \in DOMAIN log, j \in DOMAIN log :
          /\ i < j
          /\ log[i].outcome = "failed"
          /\ log[j].outcome = "written"
          /\ \E e \in DOMAIN archive.entries :
                archive.entries[e].name = BaseName(log[j].file)

\* C8: a run with the preview flag set prints every record with its emoji
\* and description and leaves disk, directories and archive as they were.
C8_PreviewWritesNothing ==
    Run /\ displayEmojis /\ pc = "done" =>
        /\ disk = Disk0(prog, shape)
        /\ dirs = {}
        /\ archive = NoArchive
        /\ \A j \in DOMAIN log : log[j].outcome = "printed"

\* C10: when the retrieval of the source file fails, fetchEmojiData returns
\* an error, main prints the diagnostic and stops: no line is parsed, no
\* record emitted, no archive built.
C10_FetchFailureStops ==
    Run /\ fetched.done /\ fetched.fault # "none" =>
        /\ err
        /\ pc = "done"
        /\ console[Len(console)].kind = "fetch-error"
        /\ idx = 0
        /\ log = <<>>
        /\ archive = NoArchive

=============================================================================
